---- MODULE Spec2Model ----
(***************************************************************************)
(* A model of xepor's InterceptedAPI (src/xepor/xepor.py): the route       *)
(* registry, host resolution (get_host), host remapping (remap_host),      *)
(* route lookup (find_handler) and the two mitmproxy hooks request() and   *)
(* response().                                                             *)
(*                                                                         *)
(* Python's Optional values are modelled as sequences of length 0 (None)   *)
(* or 1, a dict as a function whose DOMAIN is the set of keys present.     *)
(* One flow is live at a time; NewFlow replaces it by the next intercepted *)
(* flow (the hooks run to completion, and flows share no state).           *)
(***************************************************************************)
EXTENDS Integers, Sequences, FiniteSets, TLC

VARIABLES
    default_host,           \* self.default_host
    host_mapping,           \* self.host_mapping
    blacklist_domain,       \* self.blacklist_domain
    request_passthrough,    \* self.request_passthrough
    response_passthrough,   \* self.response_passthrough
    respect_proxy_headers,  \* self.respect_proxy_headers
    request_routes,         \* self.request_routes
    response_routes,        \* self.response_routes
    flow,                   \* the HTTPFlow the hooks are called with
    pc,                     \* where each hook call in flight stands
    last                    \* what the last call did (history, read by the properties only)

cfgvars == <<default_host, host_mapping, blacklist_domain, request_passthrough,
             response_passthrough, respect_proxy_headers>>
vars == <<default_host, host_mapping, blacklist_domain, request_passthrough,
          response_passthrough, respect_proxy_headers, request_routes,
          response_routes, flow, pc, last>>

(***************************************************************************)
(* Bounds and input domains                                                *)
(***************************************************************************)
\* The registry holds at most MaxRoutes routes (both directions together).
MaxRoutes == 2

\* At most MaxCalls hook calls are in flight at a time.
MaxCalls == 2

None == "None"

\* RouteType
REQUEST == 1
RESPONSE == 2

\* FlowMeta
REQ_PASSTHROUGH == "xepor-request-passthrough"
RESP_PASSTHROUGH == "xepor-response-passthrough"
REQ_URLPARSE == "xepor-request-urlparse"
REQ_HOST == "xepor-request-host"

PROXY_FORWARDED_HEADERS ==
    {"X-Forwarded-For", "X-Forwarded-Host", "X-Forwarded-Port",
     "X-Forwarded-Proto", "X-Forwarded-Server", "X-Real-Ip"}

Hosts == {"evil.example", "safe.example"}

\* A host_mapping source is an exact string, or a compiled regular expression,
\* which is modelled by the set of hosts src.match(host) accepts.
StrSrc(h) == [kind |-> "str", val |-> h, lang |-> {}]
ReSrc(hs) == [kind |-> "re", val |-> "", lang |-> hs]

NoMapping == <<>>
OneRule == << <<StrSrc("evil.example"), "safe.example">> >>
TwoRules == << <<ReSrc({"evil.example"}), "safe.example">>,
               <<StrSrc("evil.example"), "evil.example">> >>

MappingTables == { NoMapping, OneRule, TwoRules }

Blacklists == { {}, {"evil.example"} }

DefaultHosts == { None, "evil.example" }

\* A URL path is its sequence of segments: <<"get">> is "/get".  A path template
\* is a sequence of tokens, a literal segment or a named field.
Lit(s) == [kind |-> "lit", text |-> s, type |-> ""]
Field(n) == [kind |-> "field", text |-> n, type |-> ""]
\* A field with a format type, as in "{id:d}"
TypedField(n, t) == [kind |-> "field", text |-> n, type |-> t]

PathTemplates == { <<Lit("get")>>, <<Field("id")>> }

\* "/{id:d}/{id:w}": a template parse.Parser refuses, the field name being
\* repeated with another type
RepeatedName == <<TypedField("id", "d"), TypedField("id", "w")>>

\* flow.request.path: the path and the set of the query string's keys.
RequestPaths == { [path |-> <<"get">>, query |-> {"x"}],
                  [path |-> <<"post">>, query |-> {}] }

\* The forwarded headers a flow can arrive with.
FullProxyHeaders ==
    [h \in PROXY_FORWARDED_HEADERS |->
        CASE h = "X-Forwarded-Host" -> "evil.example"
          [] h = "X-Forwarded-Port" -> "8080"
          [] h = "X-Forwarded-Proto" -> "https"
          [] OTHER -> "10.0.0.1"]

Restrict(f, S) == [x \in S |-> f[x]]

EmptyDict == [k \in {} |-> ""]

Put(d, k, v) == [x \in (DOMAIN d) \cup {k} |-> IF x = k THEN v ELSE d[x]]

HeaderSets ==
    { EmptyDict,
      FullProxyHeaders,
      Restrict(FullProxyHeaders, PROXY_FORWARDED_HEADERS \ {"X-Forwarded-Proto"}),
      Restrict(FullProxyHeaders, PROXY_FORWARDED_HEADERS \ {"X-Forwarded-Host"}),
      Restrict(FullProxyHeaders, PROXY_FORWARDED_HEADERS \ {"X-Forwarded-Port"}),
      [FullProxyHeaders EXCEPT !["X-Forwarded-Port"] = "http"] }

Ports == {80, 8080}

\* A flow as the proxy hands it to request(): no response yet, empty
\* metadata.  host_header is the request's Host header (None: it has none);
\* connected tells whether the server connection already names the request's
\* destination.
MakeFlow(p, h, pt, hs, host_header, connected) ==
    [request |-> [path |-> p, host |-> h, port |-> pt, scheme |-> "http",
                  headers |-> IF host_header = None THEN hs
                              ELSE Put(hs, "Host", host_header)],
     server_conn |-> IF connected THEN << <<h, pt>> >> ELSE <<>>,
     response |-> <<>>,
     metadata |-> EmptyDict]

\* Flows of a proxy that clients use directly: no forwarded headers.
DirectFlows ==
    { MakeFlow(p, h, 80, EmptyDict, hh, FALSE) :
        p \in RequestPaths, h \in Hosts, hh \in {None, "evil.example"} }

\* Flows that reach the proxy through a reverse proxy, which sets (or fails
\* to set) the forwarded headers.
ProxiedFlows ==
    { MakeFlow([path |-> <<"get">>, query |-> {"x"}], h, 80, hs, None, FALSE) :
        h \in Hosts, hs \in HeaderSets }

\* Flows for the calls of get_host and remap_host.
RemapFlows ==
    { MakeFlow([path |-> <<"get">>, query |-> {"x"}], h, pt, hs, hh, c) :
        h \in Hosts, pt \in Ports, hs \in HeaderSets,
        hh \in {None, "evil.example"}, c \in BOOLEAN }

(***************************************************************************)
(* mitmproxy and library functions the code calls                          *)
(***************************************************************************)
\* flow.request.pretty_host: the Host header when there is one, else request.host
pretty_host(request) ==
    IF "Host" \in DOMAIN request.headers THEN request.headers["Host"] ELSE request.host

\* url.default_port(scheme)
default_port(scheme) ==
    CASE scheme = "http" -> <<80>>
      [] scheme = "https" -> <<443>>
      [] OTHER -> <<>>

\* int(s): <<n>>, or <<>> where Python raises ValueError
int(s) == IF s = "8080" THEN <<8080>> ELSE <<>>

\* urllib.parse.urlparse(flow.request.path).path drops the query string
urlparse(p) == [path |-> p.path, query |-> p.query]

\* parse.Parser(template).parse(path): <<result>> when the whole path matches,
\* <<>> (None) otherwise.  Paths here have one segment, so a field spans it.
ParserParse(parser, path) ==
    IF /\ Len(parser) = Len(path)
       /\ \A i \in 1..Len(parser) :
             parser[i].kind = "field" \/ parser[i].text = path[i]
    THEN << [fixed |-> <<>>,
             named |-> { <<parser[i].text, path[i]>> :
                           i \in {j \in 1..Len(parser) : parser[j].kind = "field"} }] >>
    ELSE <<>>

\* parse.Parser(template): <<parser>>, or <<>> where the constructor raises
\* RepeatedNameError (a field name used again with another type)
ParserInit(template) ==
    IF \E i, j \in 1..Len(template) :
          /\ i < j
          /\ template[i].kind = "field" /\ template[j].kind = "field"
          /\ template[i].text = template[j].text
          /\ template[i].type # template[j].type
    THEN <<>>
    ELSE <<template>>

\* Response.make(status, content, headers)
ResponseMake(status, content, headers) ==
    [status_code |-> status, content |-> content, headers |-> headers]

\* url.parse_authority(pretty_host, check=False): pretty_host carries no port
parse_authority(authority) == <<authority, <<>>>>

(***************************************************************************)
(* InterceptedAPI                                                          *)
(***************************************************************************)
\* What a call gives back: the flow as the call left it, the exception that
\* left the call (None when it returned), the value returned (<<>> for None).
Returned(f, v) == [flow |-> f, exc |-> None, ret |-> v]
Raised(f, e) == [flow |-> f, exc |-> e, ret |-> <<>>]

default_response == ResponseMake(404, "Not Found", {<<"X-Intercepted-By", "xepor">>})

error_response(msg) == ResponseMake(502, msg, {})

\* get_host that resolves the host anew on every call
get_host_recompute(f) ==
    LET hp == IF respect_proxy_headers
              THEN <<f.request.headers["X-Forwarded-Host"],
                     int(f.request.headers["X-Forwarded-Port"])[1]>>
              ELSE <<pretty_host(f.request),
                     IF default_port(f.request.scheme) # <<>>
                     THEN default_port(f.request.scheme)[1] ELSE 80>>
    IN  IF respect_proxy_headers
           /\ (\/ "X-Forwarded-Host" \notin DOMAIN f.request.headers
               \/ "X-Forwarded-Port" \notin DOMAIN f.request.headers
               \/ int(f.request.headers["X-Forwarded-Port"]) = <<>>)
        THEN Raised(f, "KeyError")
        ELSE Returned([f EXCEPT !.metadata = Put(@, REQ_HOST, hp)], hp)

\* get_host that falls back to the request's own host and port when a
\* forwarded header is missing or malformed
get_host_fallback(f) ==
    LET bad == \/ "X-Forwarded-Host" \notin DOMAIN f.request.headers
               \/ "X-Forwarded-Port" \notin DOMAIN f.request.headers
               \/ int(f.request.headers["X-Forwarded-Port"]) = <<>>
        hp == IF respect_proxy_headers /\ ~bad
              THEN <<f.request.headers["X-Forwarded-Host"],
                     int(f.request.headers["X-Forwarded-Port"])[1]>>
              ELSE <<pretty_host(f.request), 80>>
    IN  IF REQ_HOST \notin DOMAIN f.metadata
        THEN Returned([f EXCEPT !.metadata = Put(@, REQ_HOST, hp)], hp)
        ELSE Returned(f, f.metadata[REQ_HOST])

get_host(f) ==
    IF REQ_HOST \notin DOMAIN f.metadata
    THEN IF respect_proxy_headers
         THEN IF "X-Forwarded-Host" \notin DOMAIN f.request.headers
              THEN Raised(f, "KeyError")
              ELSE IF "X-Forwarded-Port" \notin DOMAIN f.request.headers
              THEN Raised(f, "KeyError")
              ELSE IF int(f.request.headers["X-Forwarded-Port"]) = <<>>
              THEN Raised(f, "ValueError")
              ELSE LET host == f.request.headers["X-Forwarded-Host"]
                       port == int(f.request.headers["X-Forwarded-Port"])[1]
                   IN  Returned([f EXCEPT !.metadata = Put(@, REQ_HOST, <<host, port>>)],
                                <<host, port>>)
         ELSE LET hp == parse_authority(pretty_host(f.request))
                  host == hp[1]
                  port == IF hp[2] # <<>> THEN hp[2][1]
                          ELSE IF default_port(f.request.scheme) # <<>>
                               THEN default_port(f.request.scheme)[1]
                               ELSE 80
              IN  Returned([f EXCEPT !.metadata = Put(@, REQ_HOST, <<host, port>>)],
                           <<host, port>>)
    ELSE Returned(f, f.metadata[REQ_HOST])

\* isinstance(src, re.Pattern) and src.match(host), or isinstance(src, str) and host == src
SrcMatches(src, host) ==
    \/ src.kind = "re" /\ host \in src.lang
    \/ src.kind = "str" /\ host = src.val

\* Overwrite that leaves the server connection alone
Overwrite_request_only(f, dest, port) ==
    [f EXCEPT !.request.host = dest,
              !.request.port = port,
              !.request.headers = IF "Host" \in DOMAIN @ THEN Put(@, "Host", dest) ELSE @]

\* flow.server_conn = Server((dest, port)); flow.request.host = dest;
\* flow.request.port = port.  Setting request.host also sets a Host header
\* that is present.
Overwrite(f, dest, port) ==
    [f EXCEPT !.server_conn = << <<dest, port>> >>,
              !.request.host = dest,
              !.request.port = port,
              !.request.headers = IF "Host" \in DOMAIN @ THEN Put(@, "Host", dest) ELSE @]

\* remap_scan with the last matching rule applied instead of the first
remap_scan_last(f, host, port, overwrite, i) ==
    LET R == { j \in i..Len(host_mapping) : SrcMatches(host_mapping[j][1], host) }
        top == CHOOSE j \in R : \A k \in R : k <= j
        dest == host_mapping[top][2]
    IN  IF R = {} THEN Returned(f, <<host>>)
        ELSE IF overwrite /\ (f.request.host # dest \/ f.request.port # port)
             THEN IF respect_proxy_headers
                       /\ "X-Forwarded-Proto" \notin DOMAIN f.request.headers
                  THEN Raised(f, "KeyError")
                  ELSE Returned(Overwrite(f, dest, port), <<dest>>)
             ELSE Returned(f, <<dest>>)

\* remap_scan that rewrites the flow whatever `overwrite` says
remap_scan_always_overwrite(f, host, port, overwrite, i) ==
    LET R == { j \in i..Len(host_mapping) : SrcMatches(host_mapping[j][1], host) }
        first == CHOOSE j \in R : \A k \in R : j <= k
        dest == host_mapping[first][2]
    IN  IF R = {} THEN Returned(f, <<host>>)
        ELSE IF f.request.host # dest \/ f.request.port # port
             THEN Returned(Overwrite(f, dest, port), <<dest>>)
             ELSE Returned(f, <<dest>>)

RECURSIVE remap_scan(_, _, _, _, _)
remap_scan(f, host, port, overwrite, i) ==
    IF i > Len(host_mapping)
    THEN Returned(f, <<host>>)
    ELSE LET src == host_mapping[i][1]
             dest == host_mapping[i][2]
         IN  IF SrcMatches(src, host)
             THEN IF overwrite /\ (f.request.host # dest \/ f.request.port # port)
                  THEN IF respect_proxy_headers
                       THEN IF "X-Forwarded-Proto" \notin DOMAIN f.request.headers
                            THEN Raised(f, "KeyError")
                            ELSE Returned(
                                   Overwrite([f EXCEPT !.request.scheme =
                                                f.request.headers["X-Forwarded-Proto"]],
                                             dest, port),
                                   <<dest>>)
                       ELSE Returned(Overwrite(f, dest, port), <<dest>>)
                  ELSE Returned(f, <<dest>>)
             ELSE remap_scan(f, host, port, overwrite, i + 1)

remap_host(f, overwrite) ==
    LET g == get_host(f)
    IN  IF g.exc # None THEN g
        ELSE remap_scan(g.flow, g.ret[1], g.ret[2], overwrite, 1)

\* find_scan in which an entry without a host matches every host
RECURSIVE find_scan_none_any(_, _, _, _)
find_scan_none_any(routes, host, path, i) ==
    IF i > Len(routes)
    THEN <<>>
    ELSE IF /\ routes[i][1] \in {host, None}
            /\ ParserParse(routes[i][2], path) # <<>>
         THEN <<routes[i][3], ParserParse(routes[i][2], path)[1]>>
         ELSE find_scan_none_any(routes, host, path, i + 1)

\* str.lower() on the host names of the model
Lower(h) == IF h = "SAFE.example" THEN "safe.example" ELSE h

\* find_scan that compares host names without regard to case
RECURSIVE find_scan_ignore_case(_, _, _, _)
find_scan_ignore_case(routes, host, path, i) ==
    IF i > Len(routes)
    THEN <<>>
    ELSE IF Lower(routes[i][1]) = Lower(host) /\ ParserParse(routes[i][2], path) # <<>>
         THEN <<routes[i][3], ParserParse(routes[i][2], path)[1]>>
         ELSE find_scan_ignore_case(routes, host, path, i + 1)

\* find_scan with the last matching entry winning
RECURSIVE find_scan_last(_, _, _, _)
find_scan_last(routes, host, path, i) ==
    IF i > Len(routes)
    THEN <<>>
    ELSE LET rest == find_scan_last(routes, host, path, i + 1)
         IN  IF rest # <<>> THEN rest
             ELSE IF routes[i][1] = host /\ ParserParse(routes[i][2], path) # <<>>
                  THEN <<routes[i][3], ParserParse(routes[i][2], path)[1]>>
                  ELSE <<>>

\* The loop of find_handler over one route list: <<handler, parse_result>>
\* of the first entry that matches, <<>> for (None, None).
RECURSIVE find_scan(_, _, _, _)
find_scan(routes, host, path, i) ==
    IF i > Len(routes)
    THEN <<>>
    ELSE LET h == routes[i][1]
             parser == routes[i][2]
             handler == routes[i][3]
         IN  IF h # host
             THEN find_scan(routes, host, path, i + 1)
             ELSE IF ParserParse(parser, path) # <<>>
                  THEN <<handler, ParserParse(parser, path)[1]>>
                  ELSE find_scan(routes, host, path, i + 1)

find_handler(host, path, rtype) ==
    IF rtype = REQUEST THEN Returned(<<>>, find_scan(request_routes, host, path, 1))
    ELSE IF rtype = RESPONSE THEN Returned(<<>>, find_scan(response_routes, host, path, 1))
    ELSE Raised(<<>>, "ValueError")

\* A registered view function, as the hooks call it: it edits the flow
\* (flow.request.query["payload"] = ...) and then returns, or raises
\* Exception("boom"); which of the two is the function's own business.
func_call(f, raises) ==
    LET g == [f EXCEPT !.request.path.query = @ \cup {"payload"}]
    IN  IF raises THEN Raised(g, "Exception") ELSE Returned(g, <<>>)

\* catcher that answers with the error response whatever return_error says
catcher_always_returns_error(handler, f, raises) ==
    LET r == func_call(f, raises)
    IN  IF r.exc # None
        THEN Returned([r.flow EXCEPT !.response = <<error_response("boom")>>], <<>>)
        ELSE r

\* catcher(func): the try/except around the view function
catcher(handler, f, raises) ==
    LET r == func_call(f, raises)
    IN  IF r.exc # None
        THEN IF handler.return_error
             THEN Returned([r.flow EXCEPT !.response = <<error_response("boom")>>], <<>>)
             ELSE Returned(r.flow, <<>>)
        ELSE r

\* handler_call followed by the fallback's default response
handler_call_then_default(handler, f, raises) ==
    LET c == IF handler.catch_error THEN catcher(handler, f, raises)
             ELSE func_call(f, raises)
    IN  [c EXCEPT !.flow.response = <<default_response>>]

\* handler_call with every function wrapped, whatever catch_error says
handler_call_always_catch(handler, f, raises) == catcher(handler, f, raises)

\* handler(flow, *params.fixed, **params.named) on a registry entry's handler:
\* the catcher when the route was registered with catch_error, else the
\* function itself.
handler_call(handler, f, raises) ==
    IF handler.catch_error THEN catcher(handler, f, raises) ELSE func_call(f, raises)

\* use_default_response that tests the remapped host against the blacklist
use_default_response_mapped_host(passthrough, f) ==
    \/ ~passthrough
    \/ remap_host(f, FALSE).ret[1] \in blacklist_domain

\* use_default_response without the blacklist test
use_default_response_no_blacklist(passthrough, f) == ~passthrough

\* use_default_response without the passthrough test
use_default_response_blacklist_only(passthrough, f) ==
    get_host(f).ret[1] \in blacklist_domain

\* The elif of both hooks: not self.<direction>_passthrough
\* or self.get_host(flow)[0] in self.blacklist_domain
use_default_response(passthrough, f) ==
    \/ ~passthrough
    \/ get_host(f).ret[1] \in blacklist_domain

\* Done for hooks that set their direction's flag with the default response
Done_flag_on_replace(op, f, exc, outcome, handler, host) ==
    [flow |-> IF outcome = "replace"
              THEN [f EXCEPT !.metadata =
                      Put(@, IF op = "request" THEN REQ_PASSTHROUGH
                             ELSE RESP_PASSTHROUGH, TRUE)]
              ELSE f,
     last |-> [op |-> op, exc |-> exc, outcome |-> outcome, handler |-> handler,
               host |-> host, ret |-> <<>>]]

\* What a hook did, for the record kept in `last`: the exception that left it,
\* its outcome ("skip", "error": host resolution or remapping raised,
\* "handled": the view function returned, "raised": the view function raised,
\* "replace", "pass"), the function it called and the host it looked up.
Done(op, f, exc, outcome, handler, host) ==
    [flow |-> f,
     last |-> [op |-> op, exc |-> exc, outcome |-> outcome, handler |-> handler,
               host |-> host, ret |-> <<>>]]

\* The url cache at the top of both hooks
cache_url(f) ==
    IF REQ_URLPARSE \in DOMAIN f.metadata
    THEN f
    ELSE [f EXCEPT !.metadata = Put(@, REQ_URLPARSE, urlparse(f.request.path))]

\* a passthrough test that takes either direction's flag for its own
is_true_any_flag(f, key) ==
    \E k \in {REQ_PASSTHROUGH, RESP_PASSTHROUGH} :
        k \in DOMAIN f.metadata /\ f.metadata[k] = TRUE

\* a passthrough test that never finds the flag
is_true_never(f, key) == FALSE

\* flow.metadata.get(key) is True
is_true(f, key) == key \in DOMAIN f.metadata /\ f.metadata[key] = TRUE

\* request() from remap_host on, the passthrough test being over
request_dispatch(f, raises) ==
    LET path == f.metadata[REQ_URLPARSE].path
        m == remap_host(f, TRUE)
    IN           IF m.exc # None
                 THEN Done("request", m.flow, m.exc, "error", <<>>, <<>>)
                 ELSE LET host == m.ret[1]
                          found == find_handler(host, path, REQUEST).ret
                      IN  IF found # <<>>
                          THEN LET c == handler_call(found[1], m.flow, raises)
                               IN  Done("request", c.flow, c.exc,
                                        IF raises THEN "raised" ELSE "handled",
                                        <<found[1].func>>, <<host>>)
                          ELSE IF use_default_response(request_passthrough, m.flow)
                               THEN Done("request",
                                         [m.flow EXCEPT !.response = <<default_response>>],
                                         None, "replace", <<>>, <<host>>)
                               ELSE Done("request",
                                         [m.flow EXCEPT !.metadata =
                                             Put(@, REQ_PASSTHROUGH, TRUE)],
                                         None, "pass", <<>>, <<host>>)

request(f0, raises) ==
    LET f == cache_url(f0)
    IN  IF is_true(f, REQ_PASSTHROUGH)
        THEN Done("request", f, None, "skip", <<>>, <<>>)
        ELSE request_dispatch(f, raises)

\* response() from the route lookup on, the passthrough test being over
response_dispatch(f, raises) ==
    LET path == f.metadata[REQ_URLPARSE].path
        g == get_host(f)
    IN           IF g.exc # None
                 THEN Done("response", g.flow, g.exc, "error", <<>>, <<>>)
                 ELSE LET host == g.ret[1]
                          found == find_handler(host, path, RESPONSE).ret
                      IN  IF found # <<>>
                          THEN LET c == handler_call(found[1], g.flow, raises)
                               IN  Done("response", c.flow, c.exc,
                                        IF raises THEN "raised" ELSE "handled",
                                        <<found[1].func>>, <<host>>)
                          ELSE IF use_default_response(response_passthrough, g.flow)
                               THEN Done("response",
                                         [g.flow EXCEPT !.response = <<default_response>>],
                                         None, "replace", <<>>, <<host>>)
                               ELSE Done("response",
                                         [g.flow EXCEPT !.metadata =
                                             Put(@, RESP_PASSTHROUGH, TRUE)],
                                         None, "pass", <<>>, <<host>>)

response(f0, raises) ==
    LET f == cache_url(f0)
    IN  IF is_true(f, RESP_PASSTHROUGH)
        THEN Done("response", f, None, "skip", <<>>, <<>>)
        ELSE response_dispatch(f, raises)

\* route that stores the entry before the template is parsed and the
\* direction is checked
route_append_first(path, host, rtype, catch_error, return_error, func) ==
    LET h == IF host = None \/ host = "" THEN default_host ELSE host
        handler == [func |-> func, catch_error |-> catch_error,
                    return_error |-> return_error]
        req == IF rtype = RESPONSE THEN request_routes
               ELSE Append(request_routes, <<h, path, handler>>)
        resp == IF rtype = RESPONSE THEN Append(response_routes, <<h, path, handler>>)
                ELSE response_routes
    IN  [request_routes |-> req, response_routes |-> resp,
         exc |-> IF rtype \notin {REQUEST, RESPONSE} THEN "ValueError"
                 ELSE IF ParserInit(path) = <<>> THEN "RepeatedNameError"
                 ELSE None]

\* route(path, host, rtype, catch_error, return_error)(func): the registry
\* lists after the decorator ran, and the exception that left it.  The entry's
\* handler keeps the decorator's arguments beside the function.
route(path, host, rtype, catch_error, return_error, func) ==
    LET h == IF host = None \/ host = "" THEN default_host ELSE host
        handler == [func |-> func, catch_error |-> catch_error,
                    return_error |-> return_error]
        unchanged(e) == [request_routes |-> request_routes,
                         response_routes |-> response_routes, exc |-> e]
    IN  IF rtype = REQUEST
        THEN IF ParserInit(path) = <<>>
             THEN unchanged("RepeatedNameError")
             ELSE [request_routes |->
                       Append(request_routes, <<h, ParserInit(path)[1], handler>>),
                   response_routes |-> response_routes, exc |-> None]
        ELSE IF rtype = RESPONSE
        THEN IF ParserInit(path) = <<>>
             THEN unchanged("RepeatedNameError")
             ELSE [request_routes |-> request_routes,
                   response_routes |->
                       Append(response_routes, <<h, ParserInit(path)[1], handler>>),
                   exc |-> None]
        ELSE unchanged("ValueError")

(***************************************************************************)
(* The state machine                                                       *)
(***************************************************************************)
\* The hook calls that can be in flight
Calls == 1..MaxCalls

NoCall == [op |-> "init", exc |-> None, outcome |-> "", handler |-> <<>>,
           host |-> <<>>, ret |-> <<>>]

Call(op, exc, ret) == [op |-> op, exc |-> exc, outcome |-> "", handler |-> <<>>,
                       host |-> <<>>, ret |-> ret]

NewFlow(flows) ==
    /\ flow' \in flows
    /\ last' = Call("new_flow", None, <<>>)
    /\ UNCHANGED <<cfgvars, request_routes, response_routes, pc>>

\* The upstream server answers a request that was let through.
UpstreamResponse ==
    /\ flow.response = <<>>
    /\ REQ_URLPARSE \in DOMAIN flow.metadata
    /\ flow' = [flow EXCEPT !.response = <<ResponseMake(200, "upstream", {})>>]
    /\ last' = Call("upstream", None, <<>>)
    /\ UNCHANGED <<cfgvars, request_routes, response_routes, pc>>

OnRequest ==
    \E raises \in BOOLEAN :
        /\ flow' = request(flow, raises).flow
        /\ last' = request(flow, raises).last
        /\ UNCHANGED <<cfgvars, request_routes, response_routes, pc>>

OnResponse ==
    \E raises \in BOOLEAN :
        /\ flow.response # <<>>
        /\ flow' = response(flow, raises).flow
        /\ last' = response(flow, raises).last
        /\ UNCHANGED <<cfgvars, request_routes, response_routes, pc>>

GetHostCall ==
    /\ flow' = get_host(flow).flow
    /\ last' = Call("get_host", get_host(flow).exc, get_host(flow).ret)
    /\ UNCHANGED <<cfgvars, request_routes, response_routes, pc>>

RemapHostCall ==
    \E overwrite \in BOOLEAN :
        /\ flow' = remap_host(flow, overwrite).flow
        /\ last' = [Call("remap_host", remap_host(flow, overwrite).exc,
                         remap_host(flow, overwrite).ret)
                    EXCEPT !.outcome = IF overwrite THEN "overwrite" ELSE "keep"]
        /\ UNCHANGED <<cfgvars, request_routes, response_routes, pc>>

\* Call t enters a hook while other calls may be inside one: it caches the
\* URL and tests the direction's flag, and returns at once when the flag is
\* set.  Nothing in the hooks keeps another call from running between the
\* test and the rest.
BeginHook(t, op) ==
    /\ pc[t] = "idle"
    /\ op = "response" => flow.response # <<>>
    /\ LET f == cache_url(flow)
           key == IF op = "request" THEN REQ_PASSTHROUGH ELSE RESP_PASSTHROUGH
       IN  /\ flow' = f
           /\ IF is_true(f, key)
              THEN /\ last' = Done(op, f, None, "skip", <<>>, <<>>).last
                   /\ pc' = pc
              ELSE /\ last' = [Call(op, None, <<>>) EXCEPT !.outcome = "unset"]
                   /\ pc' = [pc EXCEPT ![t] = op]
    /\ UNCHANGED <<cfgvars, request_routes, response_routes>>

\* Call t, having found the flag unset, runs the rest of its hook.
FinishHook(t) ==
    /\ pc[t] \in {"request", "response"}
    /\ \E raises \in BOOLEAN :
          LET d == IF pc[t] = "request" THEN request_dispatch(flow, raises)
                   ELSE response_dispatch(flow, raises)
          IN  /\ flow' = d.flow
              /\ last' = d.last
    /\ pc' = [pc EXCEPT ![t] = "idle"]
    /\ UNCHANGED <<cfgvars, request_routes, response_routes>>

RouteHosts == {None, "safe.example"}
RouteTypes == {REQUEST, RESPONSE, 3}
\* <<catch_error, return_error>>: route()'s defaults, and every choice
DefaultFlags == { <<TRUE, FALSE>> }
AllFlags == BOOLEAN \X BOOLEAN

Route(paths, hosts, flags) ==
    \E path \in paths, host \in hosts, rtype \in RouteTypes, fl \in flags :
        /\ Len(request_routes) + Len(response_routes) < MaxRoutes
        /\ LET r == route(path, host, rtype, fl[1], fl[2],
                          Len(request_routes) + Len(response_routes) + 1)
           IN  /\ request_routes' = r.request_routes
               /\ response_routes' = r.response_routes
               /\ last' = Call("route", r.exc, <<>>)
        /\ UNCHANGED <<cfgvars, flow, pc>>

\* InterceptedAPI(...) was constructed with no routes; the first flow is in.
Constructed(flows) ==
    /\ request_routes = <<>>
    /\ response_routes = <<>>
    /\ flow \in flows
    /\ pc = [t \in Calls |-> "idle"]
    /\ last = NoCall

(***************************************************************************)
(* Spec: the hooks of a proxy used directly, over every fallback           *)
(* configuration; routes are registered with route()'s default             *)
(* catch_error and return_error.                                           *)
(***************************************************************************)
Init ==
    /\ default_host = "evil.example"
    /\ host_mapping \in {NoMapping, TwoRules}
    /\ blacklist_domain \in Blacklists
    /\ request_passthrough \in BOOLEAN
    /\ response_passthrough \in BOOLEAN
    /\ respect_proxy_headers = FALSE
    /\ Constructed(DirectFlows)

Next ==
    \/ NewFlow(DirectFlows)
    \/ UpstreamResponse
    \/ OnRequest
    \/ OnResponse
    \/ Route(PathTemplates, RouteHosts, DefaultFlags)

Spec == Init /\ [][Next]_vars

(***************************************************************************)
(* SpecErrors: view functions that raise, under every choice of            *)
(* catch_error and return_error.                                           *)
(***************************************************************************)
ErrorFlows == { MakeFlow(p, "evil.example", 80, EmptyDict, None, FALSE) :
                  p \in RequestPaths }

InitErrors ==
    /\ default_host = "evil.example"
    /\ host_mapping = NoMapping
    /\ blacklist_domain = {}
    /\ request_passthrough \in BOOLEAN
    /\ response_passthrough \in BOOLEAN
    /\ respect_proxy_headers = FALSE
    /\ Constructed(ErrorFlows)

NextErrors ==
    \/ NewFlow(ErrorFlows)
    \/ UpstreamResponse
    \/ OnRequest
    \/ OnResponse
    \/ Route({<<Field("id")>>, RepeatedName}, {None}, AllFlags)

SpecErrors == InitErrors /\ [][NextErrors]_vars

(***************************************************************************)
(* SpecRemap: get_host and remap_host called on their own, before and       *)
(* after the hooks, over every mapping table, with and without trust in    *)
(* the forwarded headers; no route is registered.                          *)
(***************************************************************************)
InitRemap ==
    /\ default_host = None
    /\ host_mapping \in MappingTables
    /\ blacklist_domain = {}
    /\ request_passthrough = TRUE
    /\ response_passthrough = TRUE
    /\ respect_proxy_headers \in BOOLEAN
    /\ Constructed(RemapFlows)

NextRemap ==
    \/ NewFlow(RemapFlows)
    \/ GetHostCall
    \/ RemapHostCall
    \/ OnRequest
    \/ UpstreamResponse
    \/ OnResponse

SpecRemap == InitRemap /\ [][NextRemap]_vars

(***************************************************************************)
(* SpecProxy: the hooks behind a reverse proxy (respect_proxy_headers).    *)
(***************************************************************************)
InitProxy ==
    /\ default_host = "evil.example"
    /\ host_mapping \in {NoMapping, OneRule}
    /\ blacklist_domain \in Blacklists
    /\ request_passthrough \in BOOLEAN
    /\ response_passthrough \in BOOLEAN
    /\ respect_proxy_headers = TRUE
    /\ Constructed(ProxiedFlows)

NextProxy ==
    \/ NewFlow(ProxiedFlows)
    \/ UpstreamResponse
    \/ OnRequest
    \/ OnResponse
    \/ GetHostCall
    \/ RemapHostCall
    \/ Route({<<Field("id")>>}, RouteHosts, DefaultFlags)

SpecProxy == InitProxy /\ [][NextProxy]_vars

(***************************************************************************)
(* SpecNoDefault: an API constructed without a default host; routes are    *)
(* registered with no host, with the empty host and with a host.           *)
(***************************************************************************)
InitNoDefault ==
    /\ default_host = None
    /\ host_mapping \in {NoMapping, OneRule}
    /\ blacklist_domain = {}
    /\ request_passthrough \in BOOLEAN
    /\ response_passthrough \in BOOLEAN
    /\ respect_proxy_headers = FALSE
    /\ Constructed(DirectFlows)

NextNoDefault ==
    \/ NewFlow(DirectFlows)
    \/ UpstreamResponse
    \/ OnRequest
    \/ OnResponse
    \/ Route({<<Field("id")>>}, {None, "", "safe.example"}, DefaultFlags)

SpecNoDefault == InitNoDefault /\ [][NextNoDefault]_vars

(***************************************************************************)
(* SpecConcurrent: hook calls on the same flow that overlap (the hooks     *)
(* take no lock); a call is two steps, the flag test and the rest.         *)
(***************************************************************************)
InitConcurrent ==
    /\ default_host = "evil.example"
    /\ host_mapping = NoMapping
    /\ blacklist_domain = {}
    /\ request_passthrough \in BOOLEAN
    /\ response_passthrough \in BOOLEAN
    /\ respect_proxy_headers = FALSE
    /\ Constructed(ErrorFlows)

NextConcurrent ==
    \/ (\A t \in Calls : pc[t] = "idle") /\ NewFlow(ErrorFlows)
    \/ UpstreamResponse
    \/ \E t \in Calls, op \in {"request", "response"} : BeginHook(t, op)
    \/ \E t \in Calls : FinishHook(t)
    \/ Route({<<Lit("get")>>}, {None}, DefaultFlags)

SpecConcurrent == InitConcurrent /\ [][NextConcurrent]_vars

(***************************************************************************)
(* Properties                                                              *)
(***************************************************************************)
Hooks == {"request", "response"}

DirectionOf(op) == IF op = "request" THEN REQUEST ELSE RESPONSE

RoutesOf(rtype) == IF rtype = REQUEST THEN request_routes ELSE response_routes

\* The indices of the routes of a direction whose host key is `host` and
\* whose template matches `path`
Matching(rtype, host, path) ==
    { i \in 1..Len(RoutesOf(rtype)) :
        /\ RoutesOf(rtype)[i][1] = host
        /\ ParserParse(RoutesOf(rtype)[i][2], path) # <<>> }

Lowest(S) == CHOOSE i \in S : \A j \in S : i <= j

\* The hook that ran last looked a route up
LookedUp == last.op \in Hooks /\ last.host # <<>>

\* The path the hooks match: the cached urlparse(...).path
PathOf(f) == f.metadata[REQ_URLPARSE].path

AllPaths == { p.path : p \in RequestPaths }

\* C1: of two routes of a direction that both match an event's host and
\* path, the one registered first is the one find_handler returns, and the
\* one the hook calls: the handler is that of the lowest matching index.
C1_FirstRegisteredWins ==
    /\ \A rtype \in {REQUEST, RESPONSE}, host \in Hosts, path \in AllPaths :
          LET M == Matching(rtype, host, path)
              got == find_handler(host, path, rtype).ret
          IN  /\ M = {} => got = <<>>
              /\ M # {} =>
                    /\ got # <<>>
                    /\ got[1] = RoutesOf(rtype)[Lowest(M)][3]
                    /\ \A j \in M \ {Lowest(M)} : got[1] # RoutesOf(rtype)[j][3]
    /\ LookedUp =>
          LET M == Matching(DirectionOf(last.op), last.host[1], PathOf(flow))
          IN  /\ M = {} => last.handler = <<>>
              /\ M # {} =>
                    last.handler = <<RoutesOf(DirectionOf(last.op))[Lowest(M)][3].func>>

\* C1's case: a hook called a handler while two routes matched the event.
C1_Witness ==
    /\ LookedUp
    /\ last.handler # <<>>
    /\ Cardinality(Matching(DirectionOf(last.op), last.host[1], PathOf(flow))) >= 2

FlagOf(op) == IF op = "request" THEN REQ_PASSTHROUGH ELSE RESP_PASSTHROUGH

PassthroughOf(op) == IF op = "request" THEN request_passthrough ELSE response_passthrough

\* The flow carries the passthrough flag `key`
FlagSet(f, key) == key \in DOMAIN f.metadata /\ f.metadata[key] = TRUE

\* The flow's host has been resolved, and is on the blacklist
Blacklisted(f) ==
    /\ REQ_HOST \in DOMAIN f.metadata
    /\ f.metadata[REQ_HOST][1] \in blacklist_domain

\* The hook that ran last looked a route up and none matched
NoRouteMatched ==
    /\ LookedUp
    /\ Matching(DirectionOf(last.op), last.host[1], PathOf(flow)) = {}

\* C2: a hook that ends in the pass-through decision sets its direction's
\* flag; the flag stays as long as the flow lives; and a hook called on a
\* flow that carries its flag returns at once: no exception, no host
\* remapping, no route lookup, no handler, the flow exactly as it was.
C2_SkipAfterPassthrough ==
    [][ \A op \in Hooks :
          /\ (last'.op = op /\ last'.outcome = "pass") => FlagSet(flow', FlagOf(op))
          /\ (FlagSet(flow, FlagOf(op)) /\ last'.op # "new_flow")
                => FlagSet(flow', FlagOf(op))
          /\ (FlagSet(flow, FlagOf(op)) /\ last'.op = op)
                => /\ flow' = flow
                   /\ last'.outcome = "skip"
                   /\ last'.exc = None
                   /\ last'.host = <<>>
                   /\ last'.handler = <<>> ]_vars

\* C2's case: a hook skipped a flow although a route registered since the
\* pass-through decision matches its path.
C2_Witness ==
    /\ last.op \in Hooks
    /\ last.outcome = "skip"
    /\ \E h \in Hosts : Matching(DirectionOf(last.op), h, PathOf(flow)) # {}

C4_DefaultWhenNoPassthrough ==
    (NoRouteMatched /\ ~PassthroughOf(last.op))
        => /\ last.outcome = "replace"
           /\ flow.response = <<ResponseMake(404, "Not Found",
                                             {<<"X-Intercepted-By", "xepor">>})>>
           /\ ~FlagSet(flow, FlagOf(last.op))

\* C4's case: response() replaced an upstream answer of a host that is not
\* blacklisted, while request passthrough is on.
C4_Witness ==
    /\ last.op = "response"
    /\ NoRouteMatched
    /\ ~response_passthrough
    /\ request_passthrough
    /\ ~Blacklisted(flow)
    /\ flow.response = <<default_response>>

\* A request() step whose lookup found no route, with request passthrough on
\* and the resolved host not blacklisted
PassedThrough ==
    /\ last'.op = "request"
    /\ last'.host # <<>>
    /\ Matching(REQUEST, last'.host[1], PathOf(flow')) = {}
    /\ request_passthrough
    /\ flow'.metadata[REQ_HOST][1] \notin blacklist_domain

\* The indices of the mapping rules whose source matches `host`
RulesFor(host) ==
    { i \in 1..Len(host_mapping) : SrcMatches(host_mapping[i][1], host) }

\* C5 as claimed: such a request passes through with no handler called, no
\* response set, the request and the connection target as they were, and the
\* request passthrough flag set.
C5_Original ==
    [][ PassedThrough
          => /\ last'.handler = <<>>
             /\ last'.exc = None
             /\ flow'.response = flow.response
             /\ flow'.request = flow.request
             /\ flow'.server_conn = flow.server_conn
             /\ FlagSet(flow', REQ_PASSTHROUGH) ]_vars

\* C5 as amended: such a request passes through with no handler called, no
\* response set and the flag set; its path and query are as they were; its
\* host, port and connection target are as they were when no mapping rule
\* matches the resolved host (or the request already goes to the mapped
\* destination), and are otherwise those remap_host wrote: the first matching
\* rule's destination on the resolved port.
C5_PassThroughAfterRemap ==
    [][ PassedThrough
          => /\ last'.handler = <<>>
             /\ last'.exc = None
             /\ last'.outcome = "pass"
             /\ flow'.response = flow.response
             /\ FlagSet(flow', REQ_PASSTHROUGH)
             /\ flow'.request.path = flow.request.path
             /\ ~respect_proxy_headers => flow'.request.scheme = flow.request.scheme
             /\ LET hp == flow'.metadata[REQ_HOST]
                    R == RulesFor(hp[1])
                    dest == host_mapping[Lowest(R)][2]
                IN  IF R = {} \/ (flow.request.host = dest /\ flow.request.port = hp[2])
                    THEN /\ flow'.request = flow.request
                         /\ flow'.server_conn = flow.server_conn
                    ELSE /\ flow'.request.host = dest
                         /\ flow'.request.port = hp[2]
                         /\ flow'.server_conn = << <<dest, hp[2]>> >> ]_vars

\* C5's case: a request was remapped and then passed through.
C5_Witness ==
    /\ last.op = "request"
    /\ last.outcome = "pass"
    /\ FlagSet(flow, REQ_PASSTHROUGH)
    /\ RulesFor(flow.metadata[REQ_HOST][1]) # {}
    /\ flow.server_conn = << <<"safe.example", 80>> >>

\* A remap_host(flow, overwrite) step: kind is "overwrite" or "keep"
RemapStep(kind) == last'.op = "remap_host" /\ last'.outcome = kind

\* C6 as claimed: remap_host(flow) that returns gives the destination of the
\* first rule matching the resolved host and leaves the connection target,
\* the request host and the request port at (that destination, resolved
\* port); with no matching rule it gives the resolved host and leaves the
\* flow's destination alone.
C6_Original ==
    [][ (RemapStep("overwrite") /\ last'.exc = None)
          => LET hp == flow'.metadata[REQ_HOST]
                 R == RulesFor(hp[1])
                 dest == host_mapping[Lowest(R)][2]
             IN  IF R # {}
                 THEN /\ last'.ret = <<dest>>
                      /\ flow'.server_conn = << <<dest, hp[2]>> >>
                      /\ flow'.request.host = dest
                      /\ flow'.request.port = hp[2]
                 ELSE /\ last'.ret = <<hp[1]>>
                      /\ flow'.request = flow.request
                      /\ flow'.server_conn = flow.server_conn ]_vars

\* C6 as amended: remap_host(flow) that returns gives the destination of the
\* first rule matching the resolved host and leaves the request host and
\* port at (that destination, resolved port); it sets the connection target
\* to them when the request host or port differed from them, and leaves it
\* as it was otherwise; with no matching rule it gives the resolved host and
\* changes nothing.  When it raises it has changed neither, and once the host
\* was resolved it raises only for a missing X-Forwarded-Proto under
\* respect_proxy_headers.
C6_FirstRuleRemaps ==
    [][ /\ (RemapStep("overwrite") /\ last'.exc = None)
          => LET hp == flow'.metadata[REQ_HOST]
                 R == RulesFor(hp[1])
                 dest == host_mapping[Lowest(R)][2]
             IN  IF R # {}
                 THEN /\ last'.ret = <<dest>>
                      /\ flow'.request.host = dest
                      /\ flow'.request.port = hp[2]
                      /\ flow'.server_conn =
                            IF flow.request.host # dest \/ flow.request.port # hp[2]
                            THEN << <<dest, hp[2]>> >>
                            ELSE flow.server_conn
                 ELSE /\ last'.ret = <<hp[1]>>
                      /\ flow'.request = flow.request
                      /\ flow'.server_conn = flow.server_conn
        /\ (RemapStep("overwrite") /\ last'.exc # None)
          => /\ flow'.request = flow.request
             /\ flow'.server_conn = flow.server_conn
             /\ REQ_HOST \in DOMAIN flow'.metadata
                   => /\ respect_proxy_headers
                      /\ "X-Forwarded-Proto" \notin DOMAIN flow.request.headers
                      /\ RulesFor(flow'.metadata[REQ_HOST][1]) # {} ]_vars

\* C6's case: two rules match the resolved host, and the flow was rewritten
\* to the first rule's destination.
C6_Witness ==
    /\ last.op = "remap_host"
    /\ last.outcome = "overwrite"
    /\ last.exc = None
    /\ Cardinality(RulesFor(flow.metadata[REQ_HOST][1])) >= 2
    /\ last.ret = <<"safe.example">>
    /\ flow.request.host = "safe.example"
    /\ flow.server_conn = << <<"safe.example", flow.metadata[REQ_HOST][2]>> >>

\* C7: remap_host(flow, overwrite=False) on a flow whose resolved host
\* matches a rule returns the first matching rule's destination and leaves
\* the request (host, port, scheme, headers) and the connection target as
\* they were.
C7_NoOverwrite ==
    [][ ( /\ RemapStep("keep")
          /\ REQ_HOST \in DOMAIN flow'.metadata
          /\ RulesFor(flow'.metadata[REQ_HOST][1]) # {} )
          => /\ last'.exc = None
             /\ last'.ret =
                  <<host_mapping[Lowest(RulesFor(flow'.metadata[REQ_HOST][1]))][2]>>
             /\ flow'.request = flow.request
             /\ flow'.server_conn = flow.server_conn ]_vars

\* C7's case: the mapped destination came back, the flow still goes where
\* it went.
C7_Witness ==
    /\ last.op = "remap_host"
    /\ last.outcome = "keep"
    /\ last.ret = <<"safe.example">>
    /\ flow.request.host = "evil.example"
    /\ flow.server_conn # << <<"safe.example", flow.metadata[REQ_HOST][2]>> >>

\* The registered handler around view function `func`
HandlerNamed(func) ==
    LET rs == request_routes \o response_routes
        i == CHOOSE j \in 1..Len(rs) : rs[j][3].func = func
    IN  rs[i][3]

\* A hook step in which the view function of the matched route raised
HandlerRaised(op) == last'.op = op /\ last'.outcome = "raised"

\* C8: when the view function of a route registered with catch_error raises,
\* no exception leaves the hook, what the function did to the flow stays, the
\* response becomes the error response (502, the exception's message) when
\* return_error is set and is left alone when it is not, and the registry
\* and the configuration are as before, for the flows to come.
C8_CaughtErrors ==
    [][ \A op \in Hooks :
          (HandlerRaised(op) /\ HandlerNamed(last'.handler[1]).catch_error)
            => /\ last'.exc = None
               /\ "payload" \in flow'.request.path.query
               /\ flow'.response =
                     IF HandlerNamed(last'.handler[1]).return_error
                     THEN <<ResponseMake(502, "boom", {})>>
                     ELSE flow.response
               /\ ~FlagSet(flow', FlagOf(op))
               /\ UNCHANGED <<cfgvars, request_routes, response_routes>> ]_vars

\* C8's case: a caught exception became the 502 response, on a flow the
\* function had already edited.
C8_Witness ==
    /\ last.op \in Hooks
    /\ last.outcome = "raised"
    /\ last.exc = None
    /\ HandlerNamed(last.handler[1]).return_error
    /\ flow.response = <<ResponseMake(502, "boom", {})>>
    /\ "payload" \in flow.request.path.query

\* C9: when the view function of a route registered with catch_error=False
\* raises, its exception leaves the hook, the response is left alone
\* whatever return_error says, and the direction's flag is not set.
C9_UncaughtErrors ==
    [][ \A op \in Hooks :
          (HandlerRaised(op) /\ ~HandlerNamed(last'.handler[1]).catch_error)
            => /\ last'.exc = "Exception"
               /\ flow'.response = flow.response
               /\ ~FlagSet(flow', FlagOf(op)) ]_vars

\* C9's case: the exception left the hook although return_error was set.
C9_Witness ==
    /\ last.op \in Hooks
    /\ last.outcome = "raised"
    /\ last.exc = "Exception"
    /\ ~HandlerNamed(last.handler[1]).catch_error
    /\ HandlerNamed(last.handler[1]).return_error

\* C10 as claimed: under respect_proxy_headers, a request that request() has
\* processed and that goes on to the upstream server (no response was set
\* on the flow) carries none of the forwarded headers.
C10_HeadersStripped ==
    ( /\ respect_proxy_headers
      /\ last.op = "request"
      /\ last.exc = None
      /\ flow.response = <<>> )
        => (DOMAIN flow.request.headers) \cap PROXY_FORWARDED_HEADERS = {}

\* The strings of the header values that are decimal numbers
NumericStrings == {"8080"}

\* The forwarded headers of the flow do not give a host and a numeric port
BadForwardedHeaders(f) ==
    \/ "X-Forwarded-Host" \notin DOMAIN f.request.headers
    \/ "X-Forwarded-Port" \notin DOMAIN f.request.headers
    \/ f.request.headers["X-Forwarded-Port"] \notin NumericStrings

ResolvingCalls == {"get_host", "remap_host", "request", "response"}

\* C11: under respect_proxy_headers, on a flow whose X-Forwarded-Host or
\* X-Forwarded-Port header is missing or whose X-Forwarded-Port is not a
\* number, get_host, remap_host, request() and response() end with the
\* resolution's exception (KeyError, ValueError) leaving the call; no handler
\* is called, the response, the request and the connection target are as
\* before, no passthrough flag is set and no resolved host is cached.
C11_ResolutionErrorPropagates ==
    [][ ( /\ respect_proxy_headers
          /\ BadForwardedHeaders(flow)
          /\ last'.op \in ResolvingCalls )
          => /\ last'.exc \in {"KeyError", "ValueError"}
             /\ last'.handler = <<>>
             /\ last'.ret = <<>>
             /\ flow'.response = flow.response
             /\ flow'.request = flow.request
             /\ flow'.server_conn = flow.server_conn
             /\ ~FlagSet(flow', REQ_PASSTHROUGH)
             /\ ~FlagSet(flow', RESP_PASSTHROUGH)
             /\ REQ_HOST \notin DOMAIN flow'.metadata ]_vars

\* C11's case: response() ended with the ValueError of a non-numeric
\* X-Forwarded-Port while a response route matches the flow's path.
C11_Witness ==
    /\ respect_proxy_headers
    /\ last.op = "response"
    /\ last.exc = "ValueError"
    /\ BadForwardedHeaders(flow)
    /\ \E h \in Hosts : Matching(RESPONSE, h, PathOf(flow)) # {}
    /\ REQ_HOST \notin DOMAIN flow.metadata

\* The arguments route() is called with in the model
RouteArgs ==
    [path : PathTemplates \cup {RepeatedName}, host : RouteHosts,
     rtype : RouteTypes, flags : AllFlags]

\* C12: a registration whose template parse.Parser refuses, or whose rtype
\* is neither REQUEST nor RESPONSE, raises and leaves request_routes and
\* response_routes as they were; a registration that returns has appended
\* its one entry to the list of its direction and left the other list alone.
C12_RegistrationAtomic ==
    [][ /\ \A a \in RouteArgs :
              LET r == route(a.path, a.host, a.rtype, a.flags[1], a.flags[2], 0)
              IN  (a.path = RepeatedName \/ a.rtype \notin {REQUEST, RESPONSE})
                      => /\ r.exc # None
                         /\ r.request_routes = request_routes
                         /\ r.response_routes = response_routes
        /\ last'.op = "route" =>
              IF last'.exc # None
              THEN UNCHANGED <<request_routes, response_routes>>
              ELSE \/ /\ Len(request_routes') = Len(request_routes) + 1
                      /\ SubSeq(request_routes', 1, Len(request_routes)) = request_routes
                      /\ response_routes' = response_routes
                   \/ /\ Len(response_routes') = Len(response_routes) + 1
                      /\ SubSeq(response_routes', 1, Len(response_routes)) = response_routes
                      /\ request_routes' = request_routes ]_vars

\* C12's case: a registration with a refused template raised, and the route
\* registered before it is still the registry's only entry.
C12_Witness ==
    /\ last.op = "route"
    /\ last.exc = "RepeatedNameError"
    /\ Len(request_routes) + Len(response_routes) = 1

\* The metadata keys the core writes
CoreKeys == {REQ_URLPARSE, REQ_HOST, REQ_PASSTHROUGH, RESP_PASSTHROUGH}

\* C13: once a metadata field of the core (the parsed URL, the resolved
\* (host, port), either passthrough flag) is on a flow, no call of
\* request(), response(), get_host or remap_host changes or removes it; and
\* get_host on a flow whose host is resolved returns the cached pair and
\* leaves the flow as it is, also after remap_host rewrote request.host.
C13_MetadataWrittenOnce ==
    [][ /\ last'.op # "new_flow" =>
              \A k \in CoreKeys :
                  k \in DOMAIN flow.metadata
                      => /\ k \in DOMAIN flow'.metadata
                         /\ flow'.metadata[k] = flow.metadata[k]
        /\ (last'.op = "get_host" /\ REQ_HOST \in DOMAIN flow.metadata)
              => /\ last'.exc = None
                 /\ last'.ret = flow.metadata[REQ_HOST]
                 /\ flow' = flow ]_vars

\* C13's case: get_host returned the host resolved first although the
\* request has since been rewritten to another host, on a flow that carries
\* all four fields.
C13_Witness ==
    /\ last.op = "get_host"
    /\ CoreKeys \subseteq DOMAIN flow.metadata
    /\ last.ret = flow.metadata[REQ_HOST]
    /\ ~respect_proxy_headers
    /\ pretty_host(flow.request) # last.ret[1]

\* C14 as claimed: the test and the setting of a direction's flag are one
\* atomic step, so that of the calls of a direction on a flow only one finds
\* the flag unset and goes on to the lookup and the pass-through decision:
\* no call takes the pass-through decision on a flow that already carries the
\* direction's flag.
C14_AtomicCheckAndSet ==
    [][ \A t \in Calls :
          (pc[t] \in Hooks /\ pc'[t] = "idle" /\ last'.outcome = "pass")
              => ~FlagSet(flow, FlagOf(pc[t])) ]_vars

\* A hook step whose route lookup found a handler
FoundHandler(op) ==
    /\ last'.op = op
    /\ last'.host # <<>>
    /\ Matching(DirectionOf(op), last'.host[1], PathOf(flow')) # {}

LookupHosts == Hosts \cup {"SAFE.example", "api.safe.example", "example", None}

\* C16: find_handler returns a route only for a host string equal to the
\* route's host key, and the key is the host route() was given or, when it
\* was given none (None or ""), the default host; so the handler a hook
\* called is that of an entry whose key is the very host it looked up.
C16_ExactHostMatch ==
    /\ \A rtype \in {REQUEST, RESPONSE}, host \in LookupHosts, path \in AllPaths :
          LET got == find_handler(host, path, rtype).ret
          IN  /\ got # <<>> =>
                    \E i \in 1..Len(RoutesOf(rtype)) :
                        /\ RoutesOf(rtype)[i][3] = got[1]
                        /\ RoutesOf(rtype)[i][1] = host
              /\ got = <<>> => Matching(rtype, host, path) = {}
    /\ \A a \in [path : PathTemplates, host : RouteHosts \cup {""},
                  rtype : {REQUEST, RESPONSE}] :
          LET r == route(a.path, a.host, a.rtype, TRUE, FALSE, 0)
              rs == IF a.rtype = REQUEST THEN r.request_routes ELSE r.response_routes
          IN  rs[Len(rs)][1] = IF a.host \in {None, ""} THEN default_host ELSE a.host
    /\ (LookedUp /\ last.handler # <<>>)
          => \E i \in 1..Len(RoutesOf(DirectionOf(last.op))) :
                /\ RoutesOf(DirectionOf(last.op))[i][3].func = last.handler[1]
                /\ RoutesOf(DirectionOf(last.op))[i][1] = last.host[1]

\* C16's case: a hook called the handler of a route registered under
\* "safe.example" for an event of that host, while the registry also holds a
\* route under the default host that matches the path and was not chosen.
C16_Witness ==
    /\ LookedUp
    /\ last.handler # <<>>
    /\ last.host = <<"safe.example">>
    /\ Matching(DirectionOf(last.op), "safe.example", PathOf(flow)) # {}
    /\ Matching(DirectionOf(last.op), default_host, PathOf(flow)) # {}
    /\ Matching(DirectionOf(last.op), "SAFE.example", PathOf(flow)) = {}

OtherHook(op) == IF op = "request" THEN "response" ELSE "request"

\* The flow with the passthrough flag `key` set
WithFlag(f, key) == [f EXCEPT !.metadata = Put(@, key, TRUE)]

\* C17: a hook neither reads nor writes the other direction's passthrough
\* flag and calls only handlers of its own route list: it leaves the other
\* flag as it was, it skips only on its own flag, what it does is the same
\* with the other flag set, and the handler it calls is registered in its
\* own direction's list and not in the other's.
C17_DirectionsIndependent ==
    [][ /\ \A op \in Hooks :
              last'.op = op
                => /\ FlagSet(flow', FlagOf(OtherHook(op)))
                          = FlagSet(flow, FlagOf(OtherHook(op)))
                   /\ ~FlagSet(flow, FlagOf(op)) => last'.outcome # "skip"
                   /\ last'.handler # <<>>
                        => /\ \E i \in 1..Len(RoutesOf(DirectionOf(op))) :
                                 RoutesOf(DirectionOf(op))[i][3].func = last'.handler[1]
                           /\ \A i \in 1..Len(RoutesOf(DirectionOf(OtherHook(op)))) :
                                 RoutesOf(DirectionOf(OtherHook(op)))[i][3].func
                                     # last'.handler[1]
        /\ \A raises \in BOOLEAN :
              /\ request(WithFlag(flow, RESP_PASSTHROUGH), raises).last
                    = request(flow, raises).last
              /\ request(WithFlag(flow, RESP_PASSTHROUGH), raises).flow
                    = WithFlag(request(flow, raises).flow, RESP_PASSTHROUGH)
              /\ response(WithFlag(flow, REQ_PASSTHROUGH), raises).last
                    = response(flow, raises).last
              /\ response(WithFlag(flow, REQ_PASSTHROUGH), raises).flow
                    = WithFlag(response(flow, raises).flow, REQ_PASSTHROUGH) ]_vars

\* C17's case: response() called a response route's handler on a flow whose
\* request was passed through, while a request route matches the same path.
C17_Witness ==
    /\ last.op = "response"
    /\ last.outcome = "handled"
    /\ FlagSet(flow, REQ_PASSTHROUGH)
    /\ ~FlagSet(flow, RESP_PASSTHROUGH)
    /\ \E h \in Hosts : Matching(REQUEST, h, PathOf(flow)) # {}

\* The host remap_host gives for resolved host h: the first matching rule's
\* destination, h itself when no rule matches
MappedHost(h) ==
    IF RulesFor(h) = {} THEN h ELSE host_mapping[Lowest(RulesFor(h))][2]

\* C18: with H the flow's resolved (cached) host, request() looks routes up
\* under the host H is mapped to and response() looks them up under H
\* itself, also after request() has rewritten the flow; and when no route
\* matches, either hook decides on the blacklist with H: it replaces the
\* response exactly when passthrough is off or H is blacklisted.
C18_MappedRequestCachedResponse ==
    [][ \A op \in Hooks :
          (last'.op = op /\ last'.host # <<>>)
            => LET H == flow'.metadata[REQ_HOST][1]
               IN  /\ op = "request" => last'.host = <<MappedHost(H)>>
                   /\ op = "response" => last'.host = <<H>>
                   /\ last'.handler = <<>>
                        => IF ~PassthroughOf(op) \/ H \in blacklist_domain
                           THEN last'.outcome = "replace"
                           ELSE last'.outcome = "pass" ]_vars

\* C18's case: the request was remapped from evil.example to safe.example,
\* and response() then called the response route registered under
\* evil.example, not the one registered under safe.example that matches the
\* path as well.
C18_Witness ==
    /\ last.op = "response"
    /\ last.outcome = "handled"
    /\ flow.metadata[REQ_HOST][1] = "evil.example"
    /\ MappedHost("evil.example") = "safe.example"
    /\ flow.request.host = "safe.example"
    /\ flow.server_conn = << <<"safe.example", 80>> >>
    /\ last.host = <<"evil.example">>
    /\ Matching(RESPONSE, "safe.example", PathOf(flow)) # {}
    /\ \A i \in Matching(RESPONSE, "safe.example", PathOf(flow)) :
          response_routes[i][3].func # last.handler[1]

\* The hook `op` called on flow f
HookCall(op, f, raises) ==
    IF op = "request" THEN request(f, raises) ELSE response(f, raises)

\* C19: a hook that called a handler (whether the view function returned
\* or raised) or substituted the default response leaves its direction's
\* flag unset, and the same hook called again on the flow is not skipped: it
\* looks the route up again under the same host and calls the same handler
\* again, or substitutes the default response again.
C19_FlagOnlyOnPass ==
    \A op \in Hooks :
        (last.op = op /\ last.outcome \in {"handled", "raised", "replace"})
          => /\ ~FlagSet(flow, FlagOf(op))
             /\ \A raises \in BOOLEAN :
                   LET d == HookCall(op, flow, raises)
                   IN  /\ d.last.outcome # "skip"
                       /\ d.last.host = last.host
                       /\ d.last.handler = last.handler
                       /\ ~FlagSet(d.flow, FlagOf(op))
                       /\ IF last.outcome = "replace"
                          THEN /\ d.last.outcome = "replace"
                               /\ d.flow.response = <<default_response>>
                          ELSE d.last.outcome = IF raises THEN "raised" ELSE "handled"

\* C19's case: request() called a handler on a flow that an earlier
\* request() call had answered with the default response.
C19_Witness ==
    /\ last.op = "request"
    /\ last.outcome \in {"handled", "raised"}
    /\ last.exc = None
    /\ flow.response = <<default_response>>
    /\ ~FlagSet(flow, REQ_PASSTHROUGH)
    /\ response_routes = <<>>

\* The indices of the routes of a direction stored without a host whose
\* template matches `path`
HostlessMatching(rtype, path) == Matching(rtype, None, path)

\* C20: with no default host, route() called with no host (None or "")
\* stores its entry under the key None; find_handler returns no such entry
\* for any host string and path; and a hook whose event only such entries
\* match by path calls no handler and ends in the fallback.
C20_HostlessRouteUnreachable ==
    default_host = None =>
      /\ \A a \in [path : PathTemplates, host : {None, ""},
                    rtype : {REQUEST, RESPONSE}] :
            LET r == route(a.path, a.host, a.rtype, TRUE, FALSE, 0)
                rs == IF a.rtype = REQUEST THEN r.request_routes ELSE r.response_routes
            IN  r.exc = None /\ rs[Len(rs)][1] = None
      /\ \A rtype \in {REQUEST, RESPONSE}, host \in LookupHosts \ {None},
            path \in AllPaths :
            LET got == find_handler(host, path, rtype).ret
            IN  \A i \in 1..Len(RoutesOf(rtype)) :
                    RoutesOf(rtype)[i][1] = None
                        => (got = <<>> \/ got[1] # RoutesOf(rtype)[i][3])
      /\ LookedUp =>
            /\ last.host # <<None>>
            /\ \A i \in 1..Len(RoutesOf(DirectionOf(last.op))) :
                    RoutesOf(DirectionOf(last.op))[i][1] = None
                        => last.handler # <<RoutesOf(DirectionOf(last.op))[i][3].func>>
            /\ Matching(DirectionOf(last.op), last.host[1], PathOf(flow)) = {}
                    => /\ last.handler = <<>>
                       /\ last.outcome \in {"replace", "pass"}

\* C20's case: a route stored without a host matches the event's path, and
\* the hook ended in the fallback without calling it.
C20_Witness ==
    /\ default_host = None
    /\ LookedUp
    /\ HostlessMatching(DirectionOf(last.op), PathOf(flow)) # {}
    /\ last.handler = <<>>
    /\ last.outcome \in {"replace", "pass"}

====
